---- MODULE Spec2Model ----
(***************************************************************************)
(* pysme: grid-convergence analysis (grid_conv.py) and the derivative-term *)
(* algebra and homodyne integrators (integrate.py).                        *)
(*                                                                         *)
(* Numbers.  The program computes in floating point with the constants     *)
(* sqrt(2) and sqrt(3).  The model computes exactly in the field           *)
(* Q(sqrt 2, sqrt 3) restricted to power-of-two denominators: a number is  *)
(* the tuple <<a, b, c, d, e, r>> standing for                             *)
(*        (a + b*sqrt(2) + c*sqrt(3) + d*sqrt(6)) / 2^e                    *)
(* kept in lowest terms (e = 0, or one of a, b, c, d odd), and r records   *)
(* whether the program's double is that number exactly (r = 0) or only up  *)
(* to rounding (r = 1).  Where the program's result turns on whether a     *)
(* rounded double is 0.0 or a rounding residue, the model says so instead  *)
(* of deciding it.                                                         *)
(***************************************************************************)
EXTENDS Integers, Sequences, FiniteSets, TLC

VARIABLES
    integrator,   \* the Integrator object: Q, G, k_T and the products built by __init__
    term,         \* the derivative-term method last evaluated on the integrator
    di,           \* double_increments applied to a grid and its noise, once and again
    cr,           \* one activation of calc_rate: arguments, locals, position
    calls,        \* the calls calc_rate has made to integrator.integrate, in order
    sgc,          \* one activation of strong_grid_convergence: arguments, position
    tasks,        \* joblib.Parallel: the state of each delayed calc_rate task
    completed,    \* joblib.Parallel: the tasks that have finished, in finishing order
    outcome       \* what strong_grid_convergence gave its caller

vars == <<integrator, term, di, cr, calls, sgc, tasks, completed, outcome>>

----------------------------------------------------------------------------
(* Bounds of the model *)

\* the entries of the vectors k_T and rho range over -1..MaxEntry
MaxEntry == 1

\* time grids have 0..MaxIncr intervals
MaxIncr == 12

\* the sample rows a noise array is drawn from are numbered 0..MaxSeed
MaxSeed == 2

\* strong_grid_convergence is called with trajectories in 0..MaxTraj and with
\* arrays of 0..MaxTraj rows
MaxTraj == 3

\* and with n_jobs in 1..MaxJobs
MaxJobs == 2

----------------------------------------------------------------------------
(* Arithmetic.  The sixth entry of a number is 1 when the program's double  *)
(* has been through a rounded operation (np.sqrt(2), np.sqrt(3), or anything *)
(* computed from them): the double then differs from the exact value by a    *)
(* rounding error that the model does not compute.  A number with sixth      *)
(* entry 0 is a small integer or dyadic fraction, which doubles hold and     *)
(* add, multiply and halve exactly.                                          *)

Pow2(n) == IF n <= 0 THEN 1 ELSE 2^n

AllEven(x) == x[1] % 2 = 0 /\ x[2] % 2 = 0 /\ x[3] % 2 = 0 /\ x[4] % 2 = 0

RECURSIVE Norm(_)
Norm(x) ==
    IF x[5] > 0 /\ AllEven(x)
    THEN Norm(<<x[1] \div 2, x[2] \div 2, x[3] \div 2, x[4] \div 2, x[5] - 1, x[6]>>)
    ELSE x

NInt(u) == <<u, 0, 0, 0, 0, 0>>

NZero == NInt(0)

\* np.sqrt(2) and np.sqrt(3): rounded doubles
Sqrt2 == <<0, 1, 0, 0, 0, 1>>

Sqrt3 == <<0, 0, 1, 0, 0, 1>>

\* the double is exactly 0.0
ExactZero(x) == x[1] = 0 /\ x[2] = 0 /\ x[3] = 0 /\ x[4] = 0 /\ x[6] = 0

Or01(r, t) == IF r = 1 \/ t = 1 THEN 1 ELSE 0

\* (the first branch of NAdd and of NMul is the general formula specialised to
\* integer operands)
NAdd(x, y) ==
    IF x[5] = 0 /\ y[5] = 0
    THEN <<x[1] + y[1], x[2] + y[2], x[3] + y[3], x[4] + y[4], 0, Or01(x[6], y[6])>>
    ELSE
    LET e == IF x[5] > y[5] THEN x[5] ELSE y[5]
        p == Pow2(e - x[5])
        q == Pow2(e - y[5])
    IN  Norm(<<p * x[1] + q * y[1], p * x[2] + q * y[2],
               p * x[3] + q * y[3], p * x[4] + q * y[4], e, Or01(x[6], y[6])>>)

NNeg(x) == <<-x[1], -x[2], -x[3], -x[4], x[5], x[6]>>

NSub(x, y) == NAdd(x, NNeg(y))

\* a product with the double 0.0 is 0.0, whatever rounding the other factor carries
NMul(x, y) ==
    IF ExactZero(x) \/ ExactZero(y) THEN NZero
    ELSE IF x[2] = 0 /\ x[3] = 0 /\ x[4] = 0 /\ x[5] = 0
    THEN Norm(<<x[1] * y[1], x[1] * y[2], x[1] * y[3], x[1] * y[4], y[5],
                Or01(x[6], y[6])>>)
    ELSE
    Norm(<<x[1] * y[1] + 2 * x[2] * y[2] + 3 * x[3] * y[3] + 6 * x[4] * y[4],
           x[1] * y[2] + x[2] * y[1] + 3 * (x[3] * y[4] + x[4] * y[3]),
           x[1] * y[3] + x[3] * y[1] + 2 * (x[2] * y[4] + x[4] * y[2]),
           x[1] * y[4] + x[4] * y[1] + x[2] * y[3] + x[3] * y[2],
           x[5] + y[5], Or01(x[6], y[6])>>)

\* x / 2
NHalf(x) == Norm(<<x[1], x[2], x[3], x[4], x[5] + 1, x[6]>>)

\* x / sqrt(2)  =  x * sqrt(2) / 2
NDivSqrt2(x) == NHalf(NMul(x, Sqrt2))

\* the number is 0 (its double is 0.0, or a rounding residue when its sixth entry is 1)
NIsZero(x) == x[1] = 0 /\ x[2] = 0 /\ x[3] = 0 /\ x[4] = 0

Sgn(n) == IF n > 0 THEN 1 ELSE IF n < 0 THEN -1 ELSE 0

\* sign of p + q*sqrt(r) for integers p, q and r in {2, 3}
SignQuad(p, q, r) ==
    IF Sgn(p) = Sgn(q) \/ q = 0 THEN Sgn(p)
    ELSE IF p = 0 THEN Sgn(q)
    ELSE IF p * p > r * q * q THEN Sgn(p)
    ELSE Sgn(q)

\* sign of (a + b sqrt2) + sqrt3 (c + d sqrt2): by the signs of the two brackets
\* and, when they differ, of (a + b sqrt2)^2 - 3 (c + d sqrt2)^2
NSign(x) ==
    LET sp == SignQuad(x[1], x[2], 2)
        sr == SignQuad(x[3], x[4], 2)
        da == x[1] * x[1] + 2 * x[2] * x[2] - 3 * (x[3] * x[3] + 2 * x[4] * x[4])
        db == 2 * x[1] * x[2] - 6 * x[3] * x[4]
    IN  IF sp = sr \/ sr = 0 THEN sp
        ELSE IF sp = 0 THEN sr
        ELSE IF SignQuad(da, db, 2) > 0 THEN sp
        ELSE sr

NAbs(x) == IF NSign(x) < 0 THEN NNeg(x) ELSE x

----------------------------------------------------------------------------
(* numpy arrays: a vector is a sequence of numbers, a matrix a sequence of rows *)

RECURSIVE NSum(_)
NSum(v) == IF v = <<>> THEN NZero ELSE NAdd(Head(v), NSum(Tail(v)))

\* np.dot of two vectors (a 1-d array with a column)
Dot(u, v) == NSum([i \in 1..Len(u) |-> NMul(u[i], v[i])])

\* np.dot of a matrix with a column vector
MatVec(M, v) == [i \in 1..Len(M) |-> Dot(M[i], v)]

\* np.dot of a 1-d array with a matrix
VecMat(u, M) ==
    [j \in 1..Len(u) |-> NSum([i \in 1..Len(u) |-> NMul(u[i], M[i][j])])]

\* np.dot of two square matrices
MatMul(A, B) ==
    [i \in 1..Len(A) |-> [j \in 1..Len(A) |->
        NSum([l \in 1..Len(A) |-> NMul(A[i][l], B[l][j])])]]

MatAdd(A, B) == [i \in 1..Len(A) |-> [j \in 1..Len(A[i]) |-> NAdd(A[i][j], B[i][j])]]

MatScale(s, A) == [i \in 1..Len(A) |-> [j \in 1..Len(A[i]) |-> NMul(s, A[i][j])]]

VecAdd(u, v) == [i \in 1..Len(u) |-> NAdd(u[i], v[i])]

VecSub(u, v) == [i \in 1..Len(u) |-> NSub(u[i], v[i])]

VecScale(s, v) == [i \in 1..Len(v) |-> NMul(s, v[i])]

\* column + one-element array: numpy broadcasts the scalar over the column
VecAddScalar(v, s) == [i \in 1..Len(v) |-> NAdd(v[i], s)]

----------------------------------------------------------------------------
(* integrate.py: the derivative terms *)

\* b_dx_b with the factor 2 of the (k.rho)^2 term left out
b_dx_b_slip(G2, k_T_G, G, k_T, rho) ==
    LET k_rho_dot == Dot(k_T, rho)
    IN  VecAdd(VecScale(NAdd(Dot(k_T_G, rho), NMul(k_rho_dot, k_rho_dot)), rho),
               MatVec(MatAdd(G2, MatScale(NMul(NInt(2), k_rho_dot), G)), rho))

b_dx_b(G2, k_T_G, G, k_T, rho) ==
    LET k_rho_dot == Dot(k_T, rho)
    IN  VecAdd(VecScale(NAdd(Dot(k_T_G, rho),
                             NMul(NInt(2), NMul(k_rho_dot, k_rho_dot))), rho),
               MatVec(MatAdd(G2, MatScale(NMul(NInt(2), k_rho_dot), G)), rho))

b_dx_a(QG, k_T, Q, rho) == MatVec(MatAdd(QG, MatScale(Dot(k_T, rho), Q)), rho)

a_dx_b(GQ, k_T, Q, k_T_Q, rho) ==
    VecAddScalar(MatVec(MatAdd(GQ, MatScale(Dot(k_T, rho), Q)), rho),
                 Dot(k_T_Q, rho))

a_dx_a(Q2, rho) == MatVec(Q2, rho)

b_dx_b_dx_b(G3, G2, G, k_T, k_T_G, k_T_G2, rho) ==
    LET k_rho_dot == Dot(k_T, rho)
        k_T_G_rho_dot == Dot(k_T_G, rho)
        k_T_G2_rho_dot == Dot(k_T_G2, rho)
    IN  VecAdd(
          MatVec(MatAdd(MatAdd(G3, MatScale(NMul(NInt(3), k_rho_dot), G2)),
                        MatScale(NMul(NInt(3),
                                      NAdd(k_T_G_rho_dot,
                                           NMul(NInt(2), k_rho_dot))), G)),
                 rho),
          VecScale(NAdd(NAdd(k_T_G2_rho_dot,
                             NMul(NInt(6), NMul(k_rho_dot, k_T_G_rho_dot))),
                        NMul(NInt(6), NMul(k_rho_dot, NMul(k_rho_dot, k_rho_dot)))),
                   rho))

----------------------------------------------------------------------------
(* integrate.py: the integrator objects.  The operators Q, G and the vector *)
(* k_T come from system_builder (precomputed matrices); __init__ stores     *)
(* them with their products.                                                 *)

Taylor_1_5_HomodyneIntegrator(Q, G, k_T) ==
    LET G2 == MatMul(G, G)
    IN  [cls |-> "Taylor_1_5", Q |-> Q, G |-> G, k_T |-> k_T,
         G2 |-> G2, G3 |-> MatMul(G2, G), Q2 |-> MatMul(Q, Q),
         QG |-> MatMul(Q, G), GQ |-> MatMul(G, Q),
         k_T_G |-> VecMat(k_T, G), k_T_G2 |-> VecMat(k_T, G2),
         k_T_Q |-> VecMat(k_T, Q)]

MilsteinHomodyneIntegrator(Q, G, k_T) ==
    [cls |-> "Milstein", Q |-> Q, G |-> G, k_T |-> k_T,
     k_T_G |-> VecMat(k_T, G), G2 |-> MatMul(G, G)]

\* the subclass inherits __init__ and overrides integrate only
FaultyMilsteinHomodyneIntegrator(Q, G, k_T) ==
    [MilsteinHomodyneIntegrator(Q, G, k_T) EXCEPT !.cls = "FaultyMilstein"]

a_fn(self, rho) == MatVec(self.Q, rho)

b_fn(self, rho) == VecAdd(VecScale(Dot(self.k_T, rho), rho), MatVec(self.G, rho))

b_dx_b_fn(self, rho) == b_dx_b(self.G2, self.k_T_G, self.G, self.k_T, rho)

a_dx_b_fn(self, rho) == a_dx_b(self.GQ, self.k_T, self.Q, self.k_T_Q, rho)

b_dx_b_dx_b_fn(self, rho) ==
    b_dx_b_dx_b(self.G3, self.G2, self.G, self.k_T, self.k_T_G, self.k_T_G2, rho)

----------------------------------------------------------------------------
(* The derivative terms as a state machine: an integrator is constructed,   *)
(* then its derivative-term methods are evaluated on states rho.            *)

Dims == {1, 2}

\* operators: every 1x1 operator with an entry in -2..2, every 2x2 operator with
\* entries in {0, 1}; vectors (k_T and rho): entries in -1..MaxEntry
MatEntries(d) == {NInt(v) : v \in IF d = 1 THEN (-2)..2 ELSE 0..1}

VecEntries == {NInt(v) : v \in (-1)..MaxEntry}

Mats(d) == [1..d -> [1..d -> MatEntries(d)]]

Vecs(d) == [1..d -> VecEntries]

NoTerm == [fn |-> "none"]

Idle == [pc |-> "idle"]

AlgInit ==
    /\ \E d \in Dims : \E Q \in Mats(d), G \in Mats(d), k_T \in Vecs(d) :
          integrator \in {Taylor_1_5_HomodyneIntegrator(Q, G, k_T),
                          MilsteinHomodyneIntegrator(Q, G, k_T)}
    /\ term = NoTerm
    /\ di = Idle
    /\ cr = Idle
    /\ calls = <<>>
    /\ sgc = Idle
    /\ tasks = <<>>
    /\ completed = <<>>
    /\ outcome = Idle

Eval_b_dx_b_fn ==
    /\ term = NoTerm
    /\ \E rho \in Vecs(Len(integrator.k_T)) :
          term' = [fn |-> "b_dx_b", rho |-> rho, val |-> b_dx_b_fn(integrator, rho)]
    /\ UNCHANGED <<integrator, di, cr, calls, sgc, tasks, completed, outcome>>

Eval_a_dx_b_fn ==
    /\ term = NoTerm
    /\ integrator.cls = "Taylor_1_5"
    /\ \E rho \in Vecs(Len(integrator.k_T)) :
          term' = [fn |-> "a_dx_b", rho |-> rho, val |-> a_dx_b_fn(integrator, rho)]
    /\ UNCHANGED <<integrator, di, cr, calls, sgc, tasks, completed, outcome>>

Eval_b_dx_b_dx_b_fn ==
    /\ term = NoTerm
    /\ integrator.cls = "Taylor_1_5"
    /\ \E rho \in Vecs(Len(integrator.k_T)) :
          term' = [fn |-> "b_dx_b_dx_b", rho |-> rho,
                   val |-> b_dx_b_dx_b_fn(integrator, rho)]
    /\ UNCHANGED <<integrator, di, cr, calls, sgc, tasks, completed, outcome>>

AlgNext == Eval_b_dx_b_fn \/ Eval_a_dx_b_fn \/ Eval_b_dx_b_dx_b_fn

SpecAlg == AlgInit /\ [][AlgNext]_vars

----------------------------------------------------------------------------
(* Python values *)

\* an optional argument: None, or the array passed
None == [has |-> FALSE]

Some(v) == [has |-> TRUE, val |-> v]

\* a call that returns a value, and one that raises
Returned(v) == [ok |-> TRUE, val |-> v]

Raised(e) == [ok |-> FALSE, exc |-> e]

\* the one element of a singleton set: {e : x \in {v}} binds x to the value v
\* once, as Python's assignment does
TheOne(S) == CHOOSE x \in S : TRUE

\* the result slot of a call not made yet
NotCalled == [ok |-> FALSE, exc |-> "not called"]

\* s[::2] that loses the last element of an odd-length sequence
EvenSlice_slip(s) == [i \in 1..(Len(s) \div 2) |-> s[2 * i - 1]]

\* s[::2] and s[1::2]
EvenSlice(s) == [i \in 1..((Len(s) + 1) \div 2) |-> s[2 * i - 1]]

OddSlice(s) == [i \in 1..(Len(s) \div 2) |-> s[2 * i]]

\* numpy broadcasting of two 1-d arrays of lengths p and q: equal lengths, or one
\* of them 1 (stretched to the other, also to length 0); -1 when they do not
\* broadcast (ValueError)
BroadcastLen(p, q) ==
    IF p = q THEN p ELSE IF p = 1 THEN q ELSE IF q = 1 THEN p ELSE -1

Stretch(u, i) == IF Len(u) = 1 THEN u[1] ELSE u[i]

ArrAdd(u, v) ==
    [i \in 1..BroadcastLen(Len(u), Len(v)) |-> NAdd(Stretch(u, i), Stretch(v, i))]

ArrSub(u, v) ==
    [i \in 1..BroadcastLen(Len(u), Len(v)) |-> NSub(Stretch(u, i), Stretch(v, i))]

----------------------------------------------------------------------------
(* grid_conv.py *)

l1_norm(vec) == NSum([i \in 1..Len(vec) |-> NAbs(vec[i])])

\* the new noise of double_increments; U1s and U2s are arrays
new_U1s_of(U1s) ==
    LET s == ArrAdd(EvenSlice(U1s), OddSlice(U1s))
    IN  [i \in 1..Len(s) |-> NDivSqrt2(s[i])]

\* the U2 line with the sum of the U1 pair where the difference belongs
new_U2s_of_slip(U1s, U2s) ==
    LET s == ArrAdd(ArrAdd([i \in 1..BroadcastLen(Len(EvenSlice(U1s)), Len(OddSlice(U1s)))
                               |-> NMul(Sqrt3, ArrAdd(EvenSlice(U1s), OddSlice(U1s))[i])],
                           EvenSlice(U2s)),
                    OddSlice(U2s))
    IN  [i \in 1..Len(s) |-> NHalf(NDivSqrt2(s[i]))]

new_U2s_of(U1s, U2s) ==
    LET s == ArrAdd(ArrAdd([i \in 1..BroadcastLen(Len(EvenSlice(U1s)), Len(OddSlice(U1s)))
                               |-> NMul(Sqrt3, ArrSub(EvenSlice(U1s), OddSlice(U1s))[i])],
                           EvenSlice(U2s)),
                    OddSlice(U2s))
    IN  [i \in 1..Len(s) |-> NHalf(NDivSqrt2(s[i]))]

\* whether the three additions of the U2 line broadcast
U2sBroadcast(U1s, U2s) ==
    LET l1 == BroadcastLen(Len(EvenSlice(U1s)), Len(OddSlice(U1s)))
        l2 == BroadcastLen(l1, Len(EvenSlice(U2s)))
    IN  l1 >= 0 /\ l2 >= 0 /\ BroadcastLen(l2, Len(OddSlice(U2s))) >= 0

\* double_increments(times, U1s, U2s=None): U2s is None or Some(array)
double_increments(times, U1s, U2s) ==
    LET new_times == EvenSlice(times)
    IN  IF BroadcastLen(Len(EvenSlice(U1s)), Len(OddSlice(U1s))) < 0
        THEN Raised("ValueError")
        ELSE IF ~U2s.has
        THEN Returned(<<new_times, new_U1s_of(U1s)>>)
        ELSE IF ~U2sBroadcast(U1s, U2s.val)
        THEN Raised("ValueError")
        ELSE Returned(<<new_times, new_U1s_of(U1s), new_U2s_of(U1s, U2s.val)>>)

----------------------------------------------------------------------------
(* Inputs of the grid functions *)

\* an evenly spaced grid of n intervals: the times 0, 1, ..., n
Grid(n) == [i \in 1..(n + 1) |-> i - 1]

\* np.random.randn draws any reals; the model draws a row of n samples from the
\* finite family of rows numbered by seed, with entries in {-1, 0, 1}
Seeds == 0..MaxSeed

NoiseRow(seed, n) ==
    [i \in 1..n |-> NInt(((((i * i + seed * (i + 1)) \div 2) + seed * i) % 3) - 1)]

----------------------------------------------------------------------------
(* sde.py (the steppers the integrators delegate to), from the stepper       *)
(* scheme of the specification:                                               *)
(*   rho' = rho + a(rho) dt + b(rho) dW + 1/2 (b.grad b)(rho) (dW^2 - dt),    *)
(*   dW = U1 sqrt(dt); the faulty variant has no 1/2.                         *)

\* sqrt(dt) for the interval lengths of a unit grid and its coarsenings
SqrtOf(dt) ==
    CASE dt = 1 -> NInt(1)
      [] dt = 2 -> Sqrt2
      [] dt = 4 -> NInt(2)

MilsteinStep(self, rho, dt, U, weight) ==
    LET dW == NMul(U, SqrtOf(dt))
    IN  VecAdd(VecAdd(VecAdd(rho, VecScale(NInt(dt), a_fn(self, rho))),
                      VecScale(dW, b_fn(self, rho))),
               VecScale(NMul(weight, NSub(NMul(dW, dW), NInt(dt))),
                        b_dx_b_fn(self, rho)))

\* the trajectory from times[i] on, given the trajectory up to times[i]
RECURSIVE MilsteinFrom(_, _, _, _, _, _)
MilsteinFrom(self, traj, times, U1s, i, weight) ==
    IF i >= Len(times) THEN traj
    ELSE TheOne({MilsteinFrom(self, Append(traj, rho), times, U1s, i + 1, weight) :
                    rho \in {MilsteinStep(self, traj[Len(traj)],
                                          times[i + 1] - times[i], U1s[i], weight)}})

\* milstein / faulty_milstein: the whole trajectory, the initial state first;
\* noise shorter than the number of intervals is an IndexError
milstein(self, rho_0_vec, times, U1s, weight) ==
    IF Len(U1s) < Len(times) - 1 THEN Raised("IndexError")
    ELSE Returned(MilsteinFrom(self, <<rho_0_vec>>, times, U1s, 1, weight))

----------------------------------------------------------------------------
(* integrate.py: integrate of the Milstein integrators.  rho_0 is given as   *)
(* the components vectorize(rho_0, self.basis) yields for it (vectorize is   *)
(* outside this repository's sources here), each a complex number; U1s and   *)
(* U2s are None or Some(array), and U2s is unused.  With U1s = None the      *)
(* noise is drawn, so integrate is the set of the outcomes it can have.      *)

Complex(re, im) == [re |-> re, im |-> im]

\* lines 320-321: the column of the real parts of the components
rho_0_vec_of(rho_0) == [i \in 1..Len(rho_0) |-> rho_0[i].re]

integrate(self, rho_0, times, U1s, U2s) ==
    { milstein(self, rho_0_vec_of(rho_0), times, U1s_drawn,
               IF self.cls = "FaultyMilstein" THEN NInt(1) ELSE NHalf(NInt(1))) :
        U1s_drawn \in IF U1s.has THEN {U1s.val}
                      ELSE {NoiseRow(seed, Len(times) - 1) : seed \in Seeds} }

----------------------------------------------------------------------------
(* grid_conv.py: calc_rate *)

\* np.log(0.0) is -inf, so the difference of the logs is nan, -inf, inf or finite;
\* a finite rate log2(d42 / d21) is kept as the pair of norms.  When a norm is 0
\* as a number but its double was computed with rounding, the double is 0.0 or a
\* rounding residue and the rate is left as "rounding": a finite value of large
\* magnitude, or one of nan, -inf, inf
RateOf(d42, d21) ==
    IF ExactZero(d42) /\ ExactZero(d21) THEN [kind |-> "nan"]
    ELSE IF ExactZero(d42) /\ ~NIsZero(d21) THEN [kind |-> "-inf"]
    ELSE IF ExactZero(d21) /\ ~NIsZero(d42) THEN [kind |-> "inf"]
    ELSE IF NIsZero(d42) \/ NIsZero(d21)
    THEN [kind |-> "rounding", d42 |-> d42, d21 |-> d21]
    ELSE [kind |-> "finite", d42 |-> d42, d21 |-> d21]

Last(seq) == seq[Len(seq)]

\* lines 97-98
rate_of(rhos, rhos_2, rhos_4) ==
    RateOf(l1_norm(VecSub(Last(rhos_4), Last(rhos_2))),
           l1_norm(VecSub(Last(rhos_2), Last(rhos))))

\* a call that leaves U2s to the integrator's own default
IntegrateCall_slip(rho_0, times, U1s, U2s) ==
    [rho_0 |-> rho_0, times |-> times, U1s |-> U1s, U2s |-> None]

\* the arguments of one call to integrator.integrate
IntegrateCall(rho_0, times, U1s, U2s) ==
    [rho_0 |-> rho_0, times |-> times, U1s |-> U1s, U2s |-> U2s]

\* lines 94-100: the three runs and the rate, d2 and d4 being the two coarsenings
ThreeRuns(self, rho_0, times, U1s, U2s, d2, d4) ==
    TheOne({
        IF ~rhos.ok THEN [ret |-> rhos, calls |-> <<c[1]>>]
        ELSE IF ~rhos_2.ok THEN [ret |-> rhos_2, calls |-> <<c[1], c[2]>>]
        ELSE IF ~rhos_4.ok THEN [ret |-> rhos_4, calls |-> c]
        ELSE [ret |-> Returned(rate_of(rhos.val, rhos_2.val, rhos_4.val)),
              calls |-> c] :
        c \in { <<IntegrateCall(rho_0, times, Some(U1s), Some(U2s)),
                  IntegrateCall(rho_0, d2[1], Some(d2[2]), Some(d2[3])),
                  IntegrateCall(rho_0, d4[1], Some(d4[2]), Some(d4[3]))>> },
        rhos \in integrate(self, rho_0, times, Some(U1s), Some(U2s)),
        rhos_2 \in integrate(self, rho_0, d2[1], Some(d2[2]), Some(d2[3])),
        rhos_4 \in integrate(self, rho_0, d4[1], Some(d4[2]), Some(d4[3])) })

\* calc_rate with both noise arrays given (as strong_grid_convergence calls it):
\* what it returns or raises, and the integrate calls it made
calc_rate(self, rho_0, times, U1s, U2s) ==
    TheOne({
        IF ~d2.ok THEN [ret |-> d2, calls |-> <<>>]
        ELSE TheOne({
            IF ~d4.ok THEN [ret |-> d4, calls |-> <<>>]
            ELSE ThreeRuns(self, rho_0, times, U1s, U2s, d2.val, d4.val) :
            d4 \in {double_increments(d2.val[1], d2.val[2], Some(d2.val[3]))} }) :
        d2 \in {double_increments(times, U1s, Some(U2s))} })

----------------------------------------------------------------------------
(* double_increments as a state machine: it is applied to a grid with its    *)
(* noise, then again to what it returned.                                    *)

DIInit ==
    /\ \E n \in 0..MaxIncr, s1 \in Seeds :
         \E U2s \in {None} \cup {Some(NoiseRow(s2, n)) : s2 \in Seeds} :
            di = [pc |-> "args", times |-> Grid(n), U1s |-> NoiseRow(s1, n),
                  U2s |-> U2s, ret1 |-> NotCalled, ret2 |-> NotCalled]
    /\ integrator = Idle
    /\ term = NoTerm
    /\ cr = Idle
    /\ calls = <<>>
    /\ sgc = Idle
    /\ tasks = <<>>
    /\ completed = <<>>
    /\ outcome = Idle

DI_Call ==
    /\ di.pc = "args"
    /\ di' = [di EXCEPT !.pc = "once",
                        !.ret1 = double_increments(di.times, di.U1s, di.U2s)]
    /\ UNCHANGED <<integrator, term, cr, calls, sgc, tasks, completed, outcome>>

DI_Again ==
    /\ di.pc = "once"
    /\ di.ret1.ok
    /\ di' = [di EXCEPT !.pc = "twice",
                        !.ret2 = double_increments(di.ret1.val[1], di.ret1.val[2],
                                     IF di.U2s.has THEN Some(di.ret1.val[3])
                                     ELSE None)]
    /\ UNCHANGED <<integrator, term, cr, calls, sgc, tasks, completed, outcome>>

DINext == DI_Call \/ DI_Again

SpecDI == DIInit /\ [][DINext]_vars

----------------------------------------------------------------------------
(* calc_rate as a state machine: it is called with a grid and with noise     *)
(* arrays or None, draws the noise it was not given, and runs.               *)

One(v) == <<<<NInt(v)>>>>

\* the integrators of the grid checks, all with a linear diffusion field (k = 0):
\* no dynamics at all, pure diffusion (correct and faulty Milstein), pure drift,
\* and a two-component diffusion
GridIntegrators ==
    { MilsteinHomodyneIntegrator(One(0), One(0), <<NInt(0)>>),
      MilsteinHomodyneIntegrator(One(0), One(2), <<NInt(0)>>),
      FaultyMilsteinHomodyneIntegrator(One(0), One(2), <<NInt(0)>>),
      MilsteinHomodyneIntegrator(One(1), One(0), <<NInt(0)>>),
      MilsteinHomodyneIntegrator(<<<<NInt(0), NInt(0)>>, <<NInt(0), NInt(0)>>>>,
                                 <<<<NInt(0), NInt(2)>>, <<NInt(2), NInt(0)>>>>,
                                 <<NInt(0), NInt(0)>>) }

\* the initial state handed to an integrator of dimension d
InitialState(d) == [i \in 1..d |-> Complex(NInt(IF i = 1 THEN 1 ELSE 0), NZero)]

OptionalRows(n) == {None} \cup {Some(NoiseRow(seed, n)) : seed \in Seeds}

CRInit ==
    /\ integrator \in GridIntegrators
    /\ \E n \in 0..MaxIncr : \E U1s \in OptionalRows(n), U2s \in OptionalRows(n) :
          cr = [pc |-> "called", rho_0 |-> InitialState(Len(integrator.k_T)),
                times |-> Grid(n), U1s_arg |-> U1s, U2s_arg |-> U2s,
                U1s |-> U1s, U2s |-> U2s, ret |-> NotCalled]
    /\ calls = <<>>
    /\ term = NoTerm
    /\ di = Idle
    /\ sgc = Idle
    /\ tasks = <<>>
    /\ completed = <<>>
    /\ outcome = Idle

\* lines 83-87: the noise that was not given is drawn
CR_DefaultNoise ==
    /\ cr.pc = "called"
    /\ LET increments == Len(cr.times) - 1
       IN  \E d1 \in Seeds, d2 \in Seeds :
              cr' = [cr EXCEPT !.pc = "noise",
                        !.U1s = IF cr.U1s.has THEN cr.U1s
                                ELSE Some(NoiseRow(d1, increments)),
                        !.U2s = IF cr.U2s.has THEN cr.U2s
                                ELSE Some(NoiseRow(d2, increments))]
    /\ UNCHANGED <<integrator, term, di, calls, sgc, tasks, completed, outcome>>

\* lines 91-100
CR_Run ==
    /\ cr.pc = "noise"
    /\ \E r \in {calc_rate(integrator, cr.rho_0, cr.times, cr.U1s.val, cr.U2s.val)} :
           /\ cr' = [cr EXCEPT !.pc = IF r.ret.ok THEN "returned" ELSE "raised",
                               !.ret = r.ret]
           /\ calls' = r.calls
    /\ UNCHANGED <<integrator, term, di, sgc, tasks, completed, outcome>>

CRNext == CR_DefaultNoise \/ CR_Run

SpecCR == CRInit /\ [][CRNext]_vars

----------------------------------------------------------------------------
(* grid_conv.py: strong_grid_convergence.  joblib.Parallel runs the delayed  *)
(* calc_rate tasks: it hands them out in input order, at most n_jobs at a    *)
(* time, they finish in any order, the results are returned in input order,  *)
(* and an exception of a task is raised again in the caller.                  *)

\* np.random.randn(N, n): the sample array numbered seed
DrawArray(seed, N, n) == [i \in 1..N |-> NoiseRow(seed + i - 1, n)]

\* an array the caller supplies as a list of rows, row `long` (if any) one too long
WithLongRow(arr, long, n) ==
    [i \in 1..Len(arr) |-> IF i = long THEN NoiseRow(i, n + 1) ELSE arr[i]]

SuppliedU1s(n) ==
    {Some(WithLongRow(DrawArray(0, r, n), long, n)) : r \in 0..MaxTraj, long \in 0..MaxTraj}

SuppliedU2s(n) == {Some(DrawArray(1, r, n)) : r \in 0..MaxTraj}

SgcIntegrators ==
    { MilsteinHomodyneIntegrator(One(0), One(0), <<NInt(0)>>),
      MilsteinHomodyneIntegrator(One(0), One(2), <<NInt(0)>>),
      FaultyMilsteinHomodyneIntegrator(One(0), One(2), <<NInt(0)>>) }

\* the grid of the batch checks: 4 intervals
SgcGrid == Grid(4)

Min(a, b) == IF a < b THEN a ELSE b

\* a pairing that stops one pair before the shorter array ends
ZipTasks_slip(U1s_arr, U2s_arr) ==
    [i \in 1..(Min(Len(U1s_arr), Len(U2s_arr)) - 1) |->
        [state |-> "pending", U1s |-> U1s_arr[i], U2s |-> U2s_arr[i]]]

\* zip(U1s_arr, U2s_arr): one task per pair of rows
ZipTasks(U1s_arr, U2s_arr) ==
    [i \in 1..Min(Len(U1s_arr), Len(U2s_arr)) |->
        [state |-> "pending", U1s |-> U1s_arr[i], U2s |-> U2s_arr[i]]]

Init ==
    /\ integrator \in SgcIntegrators
    /\ \E U1s_arr \in {None} \cup SuppliedU1s(Len(SgcGrid) - 1),
          U2s_arr \in {None} \cup SuppliedU2s(Len(SgcGrid) - 1),
          trajectories \in 0..MaxTraj, n_jobs \in 1..MaxJobs :
          sgc = [pc |-> "called", rho_0 |-> InitialState(Len(integrator.k_T)),
                 times |-> SgcGrid, U1s_arg |-> U1s_arr, U2s_arg |-> U2s_arr,
                 U1s_arr |-> U1s_arr, U2s_arr |-> U2s_arr,
                 trajectories |-> trajectories, n_jobs |-> n_jobs]
    /\ tasks = <<>>
    /\ completed = <<>>
    /\ outcome = Idle
    /\ term = NoTerm
    /\ di = Idle
    /\ cr = Idle
    /\ calls = <<>>

\* lines 130-138: the arrays not given are drawn, and the tasks are made
SGC_DefaultNoise ==
    /\ sgc.pc = "called"
    /\ LET increments == Len(sgc.times) - 1
       IN  \E d1 \in Seeds, d2 \in Seeds :
              LET U1s_arr == IF sgc.U1s_arr.has THEN sgc.U1s_arr
                             ELSE Some(DrawArray(d1, sgc.trajectories, increments))
                  U2s_arr == IF sgc.U2s_arr.has THEN sgc.U2s_arr
                             ELSE Some(DrawArray(d2, sgc.trajectories, increments))
              IN  /\ sgc' = [sgc EXCEPT !.pc = "parallel", !.U1s_arr = U1s_arr,
                                        !.U2s_arr = U2s_arr]
                  /\ tasks' = ZipTasks(U1s_arr.val, U2s_arr.val)
    /\ UNCHANGED <<integrator, term, di, cr, calls, completed, outcome>>

Failed(done) == {j \in 1..Len(done) : ~done[j].ret.ok}

Running == {i \in 1..Len(tasks) : tasks[i].state = "running"}

\* Parallel hands the next task to a free worker
Dispatch(i) ==
    /\ sgc.pc = "parallel"
    /\ tasks[i].state = "pending"
    /\ \A j \in 1..(i - 1) : tasks[j].state # "pending"
    /\ Cardinality(Running) < sgc.n_jobs
    /\ Failed(completed) = {}
    /\ tasks' = [tasks EXCEPT ![i].state = "running"]
    /\ UNCHANGED <<integrator, term, di, cr, calls, sgc, completed, outcome>>

\* a worker finishes calc_rate(integrator, rho_0, times, U1s, U2s)
Finish(i) ==
    /\ sgc.pc = "parallel"
    /\ tasks[i].state = "running"
    /\ tasks' = [tasks EXCEPT ![i].state = "done"]
    /\ completed' = Append(completed,
           [index |-> i,
            ret |-> calc_rate(integrator, sgc.rho_0, sgc.times,
                              tasks[i].U1s, tasks[i].U2s).ret])
    /\ UNCHANGED <<integrator, term, di, cr, calls, sgc, outcome>>

\* a list of results that follows the order in which the tasks finished
Gather_slip(done) == [i \in 1..Len(done) |-> done[i].ret.val]

\* the results in input order
Gather(done) ==
    [i \in 1..Len(done) |-> (CHOOSE c \in {done[j] : j \in 1..Len(done)} : c.index = i).ret.val]

\* line 140: every task has finished, the list of rates is returned
SGC_Return ==
    /\ sgc.pc = "parallel"
    /\ Len(completed) = Len(tasks)
    /\ Failed(completed) = {}
    /\ outcome' = Returned(Gather(completed))
    /\ sgc' = [sgc EXCEPT !.pc = "done"]
    /\ UNCHANGED <<integrator, term, di, cr, calls, tasks, completed>>

\* a task has raised: Parallel raises its exception in the caller
SGC_Raise ==
    /\ sgc.pc = "parallel"
    /\ \E j \in Failed(completed) : outcome' = completed[j].ret
    /\ sgc' = [sgc EXCEPT !.pc = "done"]
    /\ UNCHANGED <<integrator, term, di, cr, calls, tasks, completed>>

Next ==
    \/ SGC_DefaultNoise
    \/ \E i \in 1..Len(tasks) : Dispatch(i)
    \/ \E i \in 1..Len(tasks) : Finish(i)
    \/ SGC_Return
    \/ SGC_Raise

Spec == Init /\ [][Next]_vars

----------------------------------------------------------------------------
(* The fields of the claims and their directional derivatives.  The drift  *)
(* a(rho) = Q rho is linear, the diffusion b(rho) = (k^T rho) rho + G rho  *)
(* quadratic and (b.grad)b cubic in rho, so central differences are exact: *)
(* for p of degree <= 2, p'(0) = (p(1) - p(-1)) / 2, and for p of degree   *)
(* <= 4, 12 p'(0) = 8 (p(1) - p(-1)) - (p(2) - p(-2)).                     *)

DriftField(Q, rho) == MatVec(Q, rho)

DiffusionField(G, k_T, rho) ==
    VecAdd(VecScale(Dot(k_T, rho), rho), MatVec(G, rho))

\* (v . grad) b at rho
GradDiffusion(G, k_T, rho, v) ==
    LET d == VecSub(DiffusionField(G, k_T, VecAdd(rho, v)),
                    DiffusionField(G, k_T, VecSub(rho, v)))
    IN  [i \in 1..Len(d) |-> NHalf(d[i])]

\* (b . grad) b at rho
DiffusionAlongItself(G, k_T, rho) ==
    GradDiffusion(G, k_T, rho, DiffusionField(G, k_T, rho))

\* 12 * (v . grad)((b . grad) b) at rho
Grad12DiffusionAlongItself(G, k_T, rho, v) ==
    LET c(x) == DiffusionAlongItself(G, k_T, x)
        v2 == VecScale(NInt(2), v)
    IN  VecSub(VecScale(NInt(8), VecSub(c(VecAdd(rho, v)), c(VecSub(rho, v)))),
               VecSub(c(VecAdd(rho, v2)), c(VecSub(rho, v2))))

\* (k^T Q rho) rho + (k^T rho) Q rho + G Q rho
ClosedForm_a_dx_b(Q, G, k_T, rho) ==
    LET Qrho == MatVec(Q, rho)
    IN  VecAdd(VecAdd(VecScale(Dot(k_T, Qrho), rho),
                      VecScale(Dot(k_T, rho), Qrho)),
               MatVec(G, Qrho))

\* (k^T G rho + 2 (k^T rho)^2) rho + (G^2 + 2 (k^T rho) G) rho
ClosedForm_b_dx_b(G, k_T, rho) ==
    LET Grho == MatVec(G, rho)
        s == Dot(k_T, rho)
    IN  VecAdd(VecScale(NAdd(Dot(k_T, Grho), NMul(NInt(2), NMul(s, s))), rho),
               VecAdd(MatVec(G, Grho), VecScale(NMul(NInt(2), s), Grho)))

NonZeroVec(v) == \E i \in 1..Len(v) : ~NIsZero(v[i])

(* C8: a_dx_b, called with the products GQ and k^T Q the constructor stores,
   returns the directional derivative of the diffusion field b along the
   drift a(rho) = Q rho, that is (k^T Q rho) rho + (k^T rho) Q rho + G Q rho. *)
C8_a_dx_b_is_derivative ==
    term.fn = "a_dx_b" =>
        /\ term.val = ClosedForm_a_dx_b(integrator.Q, integrator.G, integrator.k_T,
                                         term.rho)
        /\ term.val = GradDiffusion(integrator.G, integrator.k_T, term.rho,
                                    DriftField(integrator.Q, term.rho))

(* C9: b_dx_b_dx_b, called with G^2, G^3, k^T G and k^T G^2 as the constructor
   stores them, returns (b . grad)((b . grad) b)(rho); stated times 12, the
   denominator of the exact difference formula. *)
C9_b_dx_b_dx_b_is_second_derivative ==
    term.fn = "b_dx_b_dx_b" =>
        VecScale(NInt(12), term.val) =
            Grad12DiffusionAlongItself(integrator.G, integrator.k_T, term.rho,
                DiffusionField(integrator.G, integrator.k_T, term.rho))

(* C10: b_dx_b, called with G^2 and k^T G as the constructor stores them,
   returns the directional derivative of the diffusion field b along itself,
   that is (k^T G rho + 2 (k^T rho)^2) rho + (G^2 + 2 (k^T rho) G) rho. *)
C10_b_dx_b_is_derivative ==
    term.fn = "b_dx_b" =>
        /\ term.val = ClosedForm_b_dx_b(integrator.G, integrator.k_T, term.rho)
        /\ term.val = DiffusionAlongItself(integrator.G, integrator.k_T, term.rho)

\* b_dx_b evaluated in dimension 2 by a Milstein integrator where k^T rho, G rho
\* and the result are all non-zero
C10_witness ==
    /\ term.fn = "b_dx_b"
    /\ integrator.cls = "Milstein"
    /\ Len(term.rho) = 2
    /\ ~NIsZero(Dot(integrator.k_T, term.rho))
    /\ NonZeroVec(MatVec(integrator.G, term.rho))
    /\ NonZeroVec(term.val)

----------------------------------------------------------------------------
(* double_increments: the claims *)

Intervals == Len(di.times) - 1

\* the number a double stands for, rounding apart
Value(x) == <<x[1], x[2], x[3], x[4], x[5]>>

\* times[::4]
Stride4(times) == [i \in 1..((Len(times) + 3) \div 4) |-> times[4 * i - 3]]

(* C3: for a grid of n intervals, n even, and noise of length n,
   double_increments returns the times of the even indices (n/2 + 1 of them)
   and n/2 coarse noise entries with (as numbers, rounding apart)
       sqrt(2) * U1'_i    = U1_2i + U1_2i+1
       2 sqrt(2) * U2'_i  = sqrt(3) (U1_2i - U1_2i+1) + U2_2i + U2_2i+1 ;
   without U2s it returns the pair (new times, new U1s) only. *)
C3_double_increments ==
    (di.pc \in {"once", "twice"} /\ Intervals % 2 = 0) =>
        LET h == Intervals \div 2
            r == di.ret1
            U1 == di.U1s
        IN  /\ r.ok
            /\ Len(r.val) = IF di.U2s.has THEN 3 ELSE 2
            /\ Len(r.val[1]) = h + 1
            /\ \A i \in 0..h : r.val[1][i + 1] = di.times[2 * i + 1]
            /\ Len(r.val[2]) = h
            /\ \A i \in 0..(h - 1) :
                  Value(NMul(Sqrt2, r.val[2][i + 1])) =
                      Value(NAdd(U1[2 * i + 1], U1[2 * i + 2]))
            /\ di.U2s.has =>
                  /\ Len(r.val[3]) = h
                  /\ \A i \in 0..(h - 1) :
                        Value(NMul(NMul(NInt(2), Sqrt2), r.val[3][i + 1])) =
                            Value(NAdd(NAdd(NMul(Sqrt3, NSub(U1[2 * i + 1],
                                                             U1[2 * i + 2])),
                                            di.U2s.val[2 * i + 1]),
                                       di.U2s.val[2 * i + 2]))

\* a grid of at least 4 intervals coarsened with both noise arrays, where some
\* coarse U2 entry mixes a non-zero U1 difference with a non-zero U2 sum
C3_witness ==
    /\ di.pc = "once"
    /\ Intervals % 2 = 0
    /\ Intervals >= 4
    /\ di.U2s.has
    /\ di.ret1.ok
    /\ \E i \in 1..Len(di.ret1.val[3]) :
          /\ di.ret1.val[3][i][2] # 0
          /\ di.ret1.val[3][i][4] # 0
          /\ ~NIsZero(di.ret1.val[2][i])

KeepsEnds(new_times) ==
    /\ new_times[1] = di.times[1]
    /\ new_times[Len(new_times)] = di.times[Len(di.times)]

(* C4 as stated: for every grid with an even number of intervals, applying
   double_increments twice yields times[::4]; with the number of intervals
   divisible by 4 both levels keep the first and the last time point. *)
C4_as_stated ==
    (di.pc = "twice" /\ Intervals % 2 = 0) =>
        /\ di.ret2.ok
        /\ di.ret2.val[1] = Stride4(di.times)
        /\ Intervals % 4 = 0 =>
              KeepsEnds(di.ret1.val[1]) /\ KeepsEnds(di.ret2.val[1])

(* C4 amended: on a grid with an even number n of intervals the second
   application returns exactly when the half grid's n/2 noise entries pair up
   or broadcast (n/2 even, or n/2 = 1 or 3) and raises ValueError otherwise
   (n = 10, 14, ...); whenever it returns, its times are times[::4]; with n
   divisible by 4 it returns and both levels keep the first and the last time
   point. *)
C4_twice_is_stride_4 ==
    (di.pc = "twice" /\ Intervals % 2 = 0) =>
        LET h == Intervals \div 2
        IN  /\ di.ret2.ok <=> (h % 2 = 0 \/ h = 1 \/ h = 3)
            /\ ~di.ret2.ok => di.ret2 = Raised("ValueError")
            /\ di.ret2.ok => di.ret2.val[1] = Stride4(di.times)
            /\ Intervals % 4 = 0 =>
                  KeepsEnds(di.ret1.val[1]) /\ KeepsEnds(di.ret2.val[1])

\* twelve intervals coarsened twice: the times 0, 4, 8, 12
C4_witness ==
    /\ di.pc = "twice"
    /\ Intervals = 12
    /\ di.ret2.ok
    /\ di.ret2.val[1] = <<0, 4, 8, 12>>

----------------------------------------------------------------------------
(* calc_rate: the claims *)

CRFinished == cr.pc \in {"returned", "raised"}

CRIntervals == Len(cr.times) - 1

\* the noise of call c is what double_increments makes of the noise of call f
CoarsenedFrom(c, f) ==
    LET d == double_increments(f.times, f.U1s.val, f.U2s)
    IN  /\ d.ok
        /\ c.times = d.val[1]
        /\ c.U1s = Some(d.val[2])
        /\ c.U2s = Some(d.val[3])

OneEntryPerInterval(c) ==
    /\ c.U1s.has /\ Len(c.U1s.val) = Len(c.times) - 1
    /\ c.U2s.has /\ Len(c.U2s.val) = Len(c.times) - 1

(* C2: with len(times)-1 = n divisible by 4 and U1s, U2s of length n supplied,
   calc_rate calls integrate exactly three times, each time with rho_0, on
   grids of n, n/2 and n/4 intervals, with noise arrays (never None) of one
   entry per interval; the first call gets the supplied noise and each later
   call the double_increments of the call before it. *)
C2_three_correlated_runs ==
    (CRFinished /\ CRIntervals % 4 = 0 /\ cr.U1s_arg.has /\ cr.U2s_arg.has) =>
        /\ Len(calls) = 3
        /\ \A j \in 1..3 : calls[j].rho_0 = cr.rho_0 /\ OneEntryPerInterval(calls[j])
        /\ calls[1].times = cr.times
        /\ calls[1].U1s = cr.U1s_arg
        /\ calls[1].U2s = cr.U2s_arg
        /\ Len(calls[2].times) - 1 = CRIntervals \div 2
        /\ Len(calls[3].times) - 1 = CRIntervals \div 4
        /\ CoarsenedFrom(calls[2], calls[1])
        /\ CoarsenedFrom(calls[3], calls[2])

\* calc_rate has returned a finite rate on a grid of 8 intervals with both noise
\* arrays supplied and some non-zero coarsest noise
C2_witness ==
    /\ cr.pc = "returned"
    /\ cr.U1s_arg.has /\ cr.U2s_arg.has
    /\ CRIntervals = 8
    /\ cr.ret.val.kind = "finite"
    /\ Len(calls) = 3
    /\ \E i \in 1..2 : ~NIsZero(calls[3].U1s.val[i])

(* C5: with len(times)-1 not divisible by 4, calc_rate fails at its boundary:
   it raises (an InvalidGridError) before any call to integrate and returns no
   rate. *)
C5_invalid_grid_fails_fast ==
    (CRFinished /\ CRIntervals % 4 # 0) =>
        /\ cr.pc = "raised"
        /\ calls = <<>>

\* the final states of the three runs calc_rate made
FinalState(c) == Last(TheOne(integrate(integrator, c.rho_0, c.times, c.U1s, c.U2s)).val)

ZeroDifference ==
    \/ ExactZero(l1_norm(VecSub(FinalState(calls[3]), FinalState(calls[2]))))
    \/ ExactZero(l1_norm(VecSub(FinalState(calls[2]), FinalState(calls[1]))))

(* C6: when one of the two final-state differences has zero L1 norm, calc_rate
   reports a NumericalDegeneracyError and does not return nan or an infinite
   rate (stated for the grids calc_rate is documented for: 4, 8, ... intervals). *)
C6_degenerate_is_reported ==
    (CRFinished /\ CRIntervals % 4 = 0 /\ CRIntervals > 0 /\ Len(calls) = 3
        /\ ZeroDifference) =>
        /\ cr.pc = "raised"
        /\ cr.ret.exc = "NumericalDegeneracyError"

----------------------------------------------------------------------------
(* Claims about strong_grid_convergence (specification Spec).                *)

SGCFinished == sgc.pc = "done"

NeitherSupplied == ~sgc.U1s_arg.has /\ ~sgc.U2s_arg.has

\* what calc_rate gives for the rows of trajectory i
RateOfTrajectory(i) ==
    calc_rate(integrator, sgc.rho_0, sgc.times, sgc.U1s_arr.val[i], sgc.U2s_arr.val[i]).ret

\* C1: called with neither noise array, strong_grid_convergence returns a list
\* of exactly `trajectories` rates, and the rate at position i is the rate of
\* the i-th rows of the arrays that were drawn, whatever the number of jobs and
\* the order in which the workers finish.
C1_rates_in_trajectory_order ==
    (SGCFinished /\ NeitherSupplied) =>
        /\ outcome.ok
        /\ Len(outcome.val) = sgc.trajectories
        /\ \A i \in 1..sgc.trajectories : outcome.val[i] = RateOfTrajectory(i).val

\* C1 happens: three trajectories on two workers, the second finishes before
\* the first, and the rates returned differ from one another
C1_witness ==
    /\ SGCFinished /\ NeitherSupplied /\ outcome.ok
    /\ sgc.trajectories = 3 /\ sgc.n_jobs = 2
    /\ completed[1].index = 2
    /\ outcome.val[1] # outcome.val[2]
    /\ outcome.val[2] # outcome.val[3]

FailingTrajectories == {i \in 1..Len(tasks) : ~RateOfTrajectory(i).ok}

\* C7: when the integration of one trajectory of a batch fails, the batch
\* still returns: the rates of the other trajectories are in the result, at
\* their positions, and only the failing trajectory's entry is an error.
C7_failure_is_isolated ==
    (SGCFinished /\ Len(tasks) >= 2 /\ Cardinality(FailingTrajectories) = 1) =>
        /\ outcome.ok
        /\ Len(outcome.val) = Len(tasks)
        /\ \A i \in (1..Len(tasks)) \ FailingTrajectories :
               outcome.val[i] = RateOfTrajectory(i).val

\* the rows of a noise array as strong_grid_convergence iterates over it: those
\* of the array supplied, `trajectories` rows for an array that was not
RowCount(arg) == IF arg.has THEN Len(arg.val) ELSE sgc.trajectories

\* C11: when strong_grid_convergence returns, the number of rates is the smaller
\* of the row counts of the two noise arrays, an array not supplied counting
\* `trajectories` rows; with both arrays supplied the count is fixed by the
\* arrays alone, with one supplied the surplus rows are dropped without an
\* error; rate i is computed from row i of both arrays.
C11_count_is_shorter_array ==
    (SGCFinished /\ outcome.ok) =>
        /\ Len(outcome.val) = Min(RowCount(sgc.U1s_arg), RowCount(sgc.U2s_arg))
        /\ (sgc.U1s_arg.has /\ sgc.U2s_arg.has) =>
               Len(outcome.val) = Min(Len(sgc.U1s_arg.val), Len(sgc.U2s_arg.val))
        /\ \A i \in 1..Len(outcome.val) :
               /\ tasks[i].U1s = sgc.U1s_arr.val[i]
               /\ tasks[i].U2s = sgc.U2s_arr.val[i]
               /\ outcome.val[i] = RateOfTrajectory(i).val

\* C11 happens: only U1s_arr is supplied, with three rows, trajectories is 2, and
\* two rates are returned: the third row is dropped and nothing is raised
C11_witness ==
    /\ SGCFinished /\ outcome.ok
    /\ sgc.U1s_arg.has /\ ~sgc.U2s_arg.has
    /\ Len(sgc.U1s_arg.val) = 3 /\ sgc.trajectories = 2
    /\ Len(outcome.val) = 2
    /\ outcome.val[1] # outcome.val[2]

====
